---- MODULE Spec2Model ----
(***************************************************************************)
(* Serialization of the Elasticsearch `string` sub-field mappings          *)
(* (types/src/string/mapping.rs).                                          *)
(*                                                                         *)
(* A run of serialize() is a sequence of calls on the serde backend        *)
(* (serialize_struct, serialize_struct_elt, serialize_struct_end,          *)
(* serialize_str).  Every backend call either succeeds or fails with an    *)
(* error chosen by the backend; the model keeps the log of the calls, the  *)
(* entries the backend accepted and the value serialize() returned.        *)
(***************************************************************************)
EXTENDS Integers, Sequences, FiniteSets, TLC

VARIABLES
    self,       \* the value whose Serialize impl runs: [ty, m]
    via,        \* "direct", or the ElasticStringField variant that dispatched here
    pc,         \* position in serialize()
    idx,        \* index of the next ser_field! invocation
    doc,        \* entries the backend accepted, in order: <<key, value>>
    calls,      \* log of the backend calls of this run
    ret,        \* what serialize() returned
    fieldsRet,  \* what DefaultStringMapping::fields() returned
    memo        \* a remembered earlier run: its input and its document

vars == <<self, via, pc, idx, doc, calls, ret, fieldsRet, memo>>

----------------------------------------------------------------------------
(* Bounds of the model. *)

MaxAnalyzers == 1       \* number of distinct analyzer names
MaxBoost == 1           \* boost values 1..MaxBoost (stand-ins for f32 values)
MaxU32 == 1             \* u32 parameters range over 0..MaxU32
MaxErrors == 2          \* distinct backend error values
DetMaxPresent == 1      \* SpecDet: parameter sets with at most this many (or all) set

----------------------------------------------------------------------------
(* Option<T> and the scalar values a parameter can hold.  Values carry     *)
(* their Rust type, so a bool never equals a u32.                          *)

None == [none |-> TRUE]
Some(v) == [some |-> v]
IsSome(o) == "some" \in DOMAIN o
Unwrap(o) == o.some
Option(S) == {None} \cup {Some(v) : v \in S}

Str(s) == [str |-> s]
F32(x) == [f32 |-> x]
Bool(b) == [bool |-> b]
U32(n) == [u32 |-> n]
Unit == [unit |-> TRUE]

AnalyzerNames == <<"standard", "simple", "whitespace">>
StrValues == {Str(AnalyzerNames[i]) : i \in 1..MaxAnalyzers}
F32Values == {F32(x) : x \in 1..MaxBoost}
BoolValues == {Bool(FALSE), Bool(TRUE)}
U32Values == {U32(n) : n \in 0..MaxU32}

\* ::field::IndexAnalysis
IndexAnalysis == {[IndexAnalysis |-> a] : a \in {"Analyzed", "NotAnalyzed", "No"}}

\* pub enum IndexOptions
IndexOptions == {"Docs", "Freqs", "Positions", "Offsets"}
IndexOptionsValues == {[IndexOptions |-> o] : o \in IndexOptions}

\* impl Serialize for IndexOptions: the string handed to serialize_str
IndexOptionsStrSwapped(o) ==
    CASE o = "Docs" -> "docs"
      [] o = "Freqs" -> "freqs"
      [] o = "Positions" -> "offsets"
      [] o = "Offsets" -> "offsets"

IndexOptionsStr(o) ==
    CASE o = "Docs" -> "docs"
      [] o = "Freqs" -> "freqs"
      [] o = "Positions" -> "positions"
      [] o = "Offsets" -> "offsets"

----------------------------------------------------------------------------
(* The mapping structs. *)

ElasticTokenCountFieldMapping ==
    [analyzer : Option(StrValues),
     boost : Option(F32Values),
     doc_values : Option(BoolValues),
     index : Option(IndexAnalysis),
     include_in_all : Option(BoolValues),
     precision_step : Option(U32Values),
     store : Option(BoolValues)]

ElasticCompletionFieldMapping ==
    [analyzer : Option(StrValues),
     search_analyzer : Option(StrValues),
     payloads : Option(BoolValues),
     preserve_separators : Option(BoolValues),
     preserve_position_increments : Option(BoolValues),
     max_input_length : Option(U32Values)]

IGNORE_ABOVE_DEFAULT == 256

\* super::keyword::mapping::KeywordFieldMapping
KeywordFieldMapping ==
    [ignore_above : Option(U32Values),
     index_options : Option(IndexOptionsValues),
     store : Option(BoolValues)]

\* super::text::mapping::TextFieldMapping
TextFieldMapping ==
    [analyzer : Option(StrValues),
     index_options : Option(IndexOptionsValues),
     store : Option(BoolValues)]

\* Default::default() of KeywordFieldMapping: every parameter None
KeywordDefault == [ignore_above |-> None, index_options |-> None, store |-> None]

\* A variant of ElasticStringField wrapping its mapping struct
Variant(tag, m) == [variant |-> tag, m |-> m]

\* pub enum ElasticStringField
ElasticStringField ==
    {Variant("TokenCount", m) : m \in ElasticTokenCountFieldMapping}
    \cup {Variant("Completion", m) : m \in ElasticCompletionFieldMapping}
    \cup {Variant("Keyword", m) : m \in KeywordFieldMapping}
    \cup {Variant("Text", m) : m \in TextFieldMapping}

\* DefaultStringMapping::fields(): the BTreeMap it builds
DefaultFieldsOffByOne ==
    [keyword |-> Variant("Keyword", [KeywordDefault EXCEPT !.ignore_above = Some(U32(255))])]

DefaultFields ==
    [keyword |->
        Variant("Keyword", [KeywordDefault EXCEPT !.ignore_above = Some(U32(IGNORE_ABOVE_DEFAULT))])]

----------------------------------------------------------------------------
(* Results of backend calls and of serialize(). *)

Ok == [Ok |-> Unit]
Err(e) == [Err |-> e]
IsOk(r) == "Ok" \in DOMAIN r
IsErr(r) == "Err" \in DOMAIN r
Pending == [pending |-> TRUE]

\* S::Error: the errors a backend call can fail with
Errors == 1..MaxErrors
BackendResults == {Ok} \cup {Err(e) : e \in Errors}

\* try!(expr): on Err(e) the enclosing function returns, with Err(From::from(e))
PropagatesNever(r) == FALSE

Propagates(r) == IsErr(r)

TryReturnSwallowed(r) == Ok

TryReturn(r) == Err(r.Err)

\* serialize() ends with `serializer.serialize_struct_end(state)`: its result is returned
EndReturn(r) == r

\* ser_field!(serializer, state, name, field): emits only when the field is Some
ser_field_emits(opt) == IsSome(opt)

----------------------------------------------------------------------------
(* The Serialize impls of the mapping structs, as tables: the datatype     *)
(* written under `type`, the length declared to serialize_struct, and the  *)
(* ser_field! invocations in source order, each <<name, struct field>>.    *)

TOKENCOUNT_DATATYPE == "token_count"
COMPLETION_DATATYPE == "completion"
\* super::keyword::mapping / super::text::mapping
KEYWORD_DATATYPE == "keyword"
TEXT_DATATYPE == "text"

TokenCountTypeTag == TOKENCOUNT_DATATYPE

CompletionTypeTagCopied == TOKENCOUNT_DATATYPE

CompletionTypeTag == COMPLETION_DATATYPE

TokenCountSerFieldsWrongField ==
    << <<"analyzer", "analyzer">>, <<"boost", "boost">>,
       <<"doc_values", "include_in_all">>, <<"index", "index">>,
       <<"include_in_all", "include_in_all">>,
       <<"precision_step", "precision_step">>, <<"store", "store">> >>

TokenCountSerFieldsOrdered ==
    << <<"analyzer", "analyzer">>, <<"boost", "boost">>,
       <<"doc_values", "doc_values">>, <<"index", "index">>,
       <<"include_in_all", "include_in_all">>,
       <<"precision_step", "precision_step">>, <<"store", "store">> >>

\* the order of emission flips once a document has been produced and kept
TokenCountSerFieldsStateful ==
    IF IsSome(memo)
        THEN [i \in 1..7 |-> TokenCountSerFieldsOrdered[8 - i]]
        ELSE TokenCountSerFieldsOrdered

TokenCountSerFields ==
    << <<"analyzer", "analyzer">>, <<"boost", "boost">>,
       <<"doc_values", "doc_values">>, <<"index", "index">>,
       <<"include_in_all", "include_in_all">>,
       <<"precision_step", "precision_step">>, <<"store", "store">> >>

TokenCountStructLenNoTag == Len(TokenCountSerFields)

TokenCountStructLen == 8

CompletionSerFieldsSwapped ==
    << <<"analyzer", "analyzer">>, <<"payloads", "payloads">>,
       <<"search_analyzer", "search_analyzer">>,
       <<"preserve_separators", "preserve_separators">>,
       <<"preserve_position_increments", "preserve_position_increments">>,
       <<"max_input_length", "max_input_length">> >>

CompletionSerFieldsDupKey ==
    << <<"analyzer", "analyzer">>, <<"analyzer", "search_analyzer">>,
       <<"payloads", "payloads">>,
       <<"preserve_separators", "preserve_separators">>,
       <<"preserve_position_increments", "preserve_position_increments">>,
       <<"max_input_length", "max_input_length">> >>

CompletionSerFields ==
    << <<"analyzer", "analyzer">>, <<"search_analyzer", "search_analyzer">>,
       <<"payloads", "payloads">>,
       <<"preserve_separators", "preserve_separators">>,
       <<"preserve_position_increments", "preserve_position_increments">>,
       <<"max_input_length", "max_input_length">> >>

CompletionStructLen == 7

\* super::keyword::mapping and super::text::mapping: always-tag, sparse optionals
KeywordSerFields ==
    << <<"ignore_above", "ignore_above">>, <<"index_options", "index_options">>,
       <<"store", "store">> >>
KeywordStructLen == Len(KeywordSerFields) + 1

TextSerFields ==
    << <<"analyzer", "analyzer">>, <<"index_options", "index_options">>,
       <<"store", "store">> >>
TextStructLen == Len(TextSerFields) + 1

\* The impl that runs for a value of type ty
TypeTag(ty) ==
    CASE ty = "ElasticTokenCountFieldMapping" -> TokenCountTypeTag
      [] ty = "ElasticCompletionFieldMapping" -> CompletionTypeTag
      [] ty = "KeywordFieldMapping" -> KEYWORD_DATATYPE
      [] ty = "TextFieldMapping" -> TEXT_DATATYPE

StructLen(ty) ==
    CASE ty = "ElasticTokenCountFieldMapping" -> TokenCountStructLen
      [] ty = "ElasticCompletionFieldMapping" -> CompletionStructLen
      [] ty = "KeywordFieldMapping" -> KeywordStructLen
      [] ty = "TextFieldMapping" -> TextStructLen

SerFields(ty) ==
    CASE ty = "ElasticTokenCountFieldMapping" -> TokenCountSerFields
      [] ty = "ElasticCompletionFieldMapping" -> CompletionSerFields
      [] ty = "KeywordFieldMapping" -> KeywordSerFields
      [] ty = "TextFieldMapping" -> TextSerFields

\* impl Serialize for ElasticStringField: the match, variant -> the impl it calls
Dispatch(f) ==
    CASE f.variant = "TokenCount" -> [ty |-> "ElasticTokenCountFieldMapping", m |-> f.m]
      [] f.variant = "Completion" -> [ty |-> "ElasticCompletionFieldMapping", m |-> f.m]
      [] f.variant = "Keyword" -> [ty |-> "KeywordFieldMapping", m |-> f.m]
      [] f.variant = "Text" -> [ty |-> "TextFieldMapping", m |-> f.m]

----------------------------------------------------------------------------
(* Backend calls. *)

Call(op, name, value, res) == [op |-> op, name |-> name, value |-> value, res |-> res]

NoSelf == [ty |-> "none", m |-> Unit]

\* where serialize() stands once the ser_field! invocations before i are through
AfterField(i) ==
    IF i > Len(SerFields(self.ty)) THEN "serialize_struct_end" ELSE "ser_field"

----------------------------------------------------------------------------
Init ==
    /\ self = NoSelf
    /\ via = "none"
    /\ pc = "idle"
    /\ idx = 0
    /\ doc = <<>>
    /\ calls = <<>>
    /\ ret = Pending
    /\ fieldsRet = None
    /\ memo = None

\* serialize() is entered on value v
Enter(v, how) ==
    /\ self' = v
    /\ via' = how
    /\ pc' = "serialize_struct"
    /\ UNCHANGED <<idx, doc, calls, ret, fieldsRet, memo>>

\* DefaultStringMapping::fields()
Fields ==
    /\ pc = "idle"
    /\ fieldsRet' = Some(DefaultFields)
    /\ pc' = "fields_returned"
    /\ UNCHANGED <<self, via, idx, doc, calls, ret, memo>>

\* <ElasticStringField as Serialize>::serialize on a value of S
SerializeStringField(S) ==
    /\ pc = "idle"
    /\ \E f \in S : Enter(Dispatch(f), f.variant)

\* the same, on an entry of the map fields() returned
SerializeDefaultField ==
    /\ pc = "fields_returned"
    /\ \E k \in DOMAIN Unwrap(fieldsRet) :
          Enter(Dispatch(Unwrap(fieldsRet)[k]), Unwrap(fieldsRet)[k].variant)

\* <ElasticTokenCountFieldMapping as Serialize>::serialize called directly
SerializeTokenCount(S) ==
    /\ pc = "idle"
    /\ \E m \in S : Enter([ty |-> "ElasticTokenCountFieldMapping", m |-> m], "direct")

\* <ElasticCompletionFieldMapping as Serialize>::serialize called directly
SerializeCompletion(S) ==
    /\ pc = "idle"
    /\ \E m \in S : Enter([ty |-> "ElasticCompletionFieldMapping", m |-> m], "direct")

\* <IndexOptions as Serialize>::serialize: one serialize_str, its result returned
SerializeIndexOptions ==
    /\ pc = "idle"
    /\ \E o \in IndexOptions, r \in BackendResults :
          /\ self' = [ty |-> "IndexOptions", m |-> [IndexOptions |-> o]]
          /\ calls' = <<Call("serialize_str", "", Str(IndexOptionsStr(o)), r)>>
          /\ ret' = r
    /\ via' = "direct"
    /\ pc' = "done"
    /\ UNCHANGED <<idx, doc, fieldsRet, memo>>

\* let mut state = try!(serializer.serialize_struct("mapping", N));
SerializeStruct ==
    /\ pc = "serialize_struct"
    /\ \E r \in BackendResults :
          /\ calls' = Append(calls,
                    Call("serialize_struct", "mapping", [len |-> StructLen(self.ty)], r))
          /\ IF Propagates(r)
                THEN ret' = TryReturn(r) /\ pc' = "done"
                ELSE ret' = ret /\ pc' = "type"
    /\ UNCHANGED <<self, via, idx, doc, fieldsRet, memo>>

\* try!(serializer.serialize_struct_elt(&mut state, "type", DATATYPE));
SerializeType ==
    /\ pc = "type"
    /\ \E r \in BackendResults :
          /\ calls' = Append(calls,
                    Call("serialize_struct_elt", "type", Str(TypeTag(self.ty)), r))
          /\ doc' = IF IsOk(r) THEN Append(doc, <<"type", Str(TypeTag(self.ty))>>) ELSE doc
          /\ IF Propagates(r)
                THEN ret' = TryReturn(r) /\ pc' = "done" /\ idx' = idx
                ELSE ret' = ret /\ pc' = AfterField(1) /\ idx' = 1
    /\ UNCHANGED <<self, via, fieldsRet, memo>>

\* ser_field!(serializer, &mut state, name, self.field);
SerField ==
    /\ pc = "ser_field"
    /\ LET name == SerFields(self.ty)[idx][1]
           field == self.m[SerFields(self.ty)[idx][2]]
       IN IF ser_field_emits(field)
            THEN \E r \in BackendResults :
                   /\ calls' = Append(calls,
                             Call("serialize_struct_elt", name, Unwrap(field), r))
                   /\ doc' = IF IsOk(r) THEN Append(doc, <<name, Unwrap(field)>>) ELSE doc
                   /\ IF Propagates(r)
                         THEN ret' = TryReturn(r) /\ pc' = "done" /\ idx' = idx
                         ELSE ret' = ret /\ pc' = AfterField(idx + 1) /\ idx' = idx + 1
            ELSE /\ idx' = idx + 1
                 /\ pc' = AfterField(idx + 1)
                 /\ UNCHANGED <<doc, calls, ret>>
    /\ UNCHANGED <<self, via, fieldsRet, memo>>

\* serializer.serialize_struct_end(state)
SerializeStructEnd ==
    /\ pc = "serialize_struct_end"
    /\ \E r \in BackendResults :
          /\ calls' = Append(calls, Call("serialize_struct_end", "", Unit, r))
          /\ ret' = EndReturn(r)
    /\ pc' = "done"
    /\ UNCHANGED <<self, via, idx, doc, fieldsRet, memo>>

\* the caller takes the result and drops what it held; the next call starts
\* with a fresh serializer
Reset ==
    /\ pc \in {"done", "fields_returned"}
    /\ self' = NoSelf
    /\ via' = "none"
    /\ pc' = "idle"
    /\ idx' = 0
    /\ doc' = <<>>
    /\ calls' = <<>>
    /\ ret' = Pending
    /\ fieldsRet' = None

Return ==
    /\ Reset
    /\ UNCHANGED memo

Next ==
    \/ Fields
    \/ SerializeStringField(ElasticStringField)
    \/ SerializeDefaultField
    \/ SerializeTokenCount(ElasticTokenCountFieldMapping)
    \/ SerializeCompletion(ElasticCompletionFieldMapping)
    \/ SerializeIndexOptions
    \/ SerializeStruct
    \/ SerializeType
    \/ SerField
    \/ SerializeStructEnd
    \/ Return

Spec == Init /\ [][Next]_vars

----------------------------------------------------------------------------
(* Repeated serialization.  The caller keeps the document of one           *)
(* successful run (memo) and goes on serializing other values and the same *)
(* value again.  Inputs are the parameter sets with at most DetMaxPresent  *)
(* parameters set, or all of them set, each to a value of DetValues.       *)

NumPresent(m) == Cardinality({f \in DOMAIN m : IsSome(m[f])})

DetValues ==
    {Str(AnalyzerNames[1]), F32(1), Bool(FALSE), Bool(TRUE), U32(0),
     [IndexAnalysis |-> "No"], [IndexOptions |-> "Docs"]}

Sparse(S) ==
    {m \in S :
        /\ \A f \in DOMAIN m : m[f] \in Option(DetValues)
        /\ NumPresent(m) <= DetMaxPresent \/ NumPresent(m) = Cardinality(DOMAIN m)}

DetTokenCount == Sparse(ElasticTokenCountFieldMapping)
DetCompletion == Sparse(ElasticCompletionFieldMapping)
DetStringFields == {f \in ElasticStringField : f.m \in Sparse({f.m})}

\* the caller keeps the document of this run
Remember ==
    /\ pc = "done"
    /\ IsOk(ret)
    /\ memo = None
    /\ memo' = Some([self |-> self, doc |-> doc, calls |-> calls, interleaved |-> FALSE])
    /\ Reset

\* the caller drops the result, noting whether another value was serialized
ReturnDet ==
    /\ memo' = IF IsSome(memo) /\ pc = "done" /\ Unwrap(memo).self # self
                   THEN Some([Unwrap(memo) EXCEPT !.interleaved = TRUE])
                   ELSE memo
    /\ Reset

NextDet ==
    \/ Fields
    \/ SerializeStringField(DetStringFields)
    \/ SerializeDefaultField
    \/ SerializeTokenCount(DetTokenCount)
    \/ SerializeCompletion(DetCompletion)
    \/ SerializeIndexOptions
    \/ SerializeStruct
    \/ SerializeType
    \/ SerField
    \/ SerializeStructEnd
    \/ Remember
    \/ ReturnDet

SpecDet == Init /\ [][NextDet]_vars

----------------------------------------------------------------------------
(* Properties. *)

Keys(d) == [i \in 1..Len(d) |-> d[i][1]]

IsStruct == self.ty \in {"ElasticTokenCountFieldMapping", "ElasticCompletionFieldMapping",
                         "KeywordFieldMapping", "TextFieldMapping"}
IsTokenCount == self.ty = "ElasticTokenCountFieldMapping"
IsCompletion == self.ty = "ElasticCompletionFieldMapping"
Succeeded == pc = "done" /\ IsOk(ret)
Failed(i) == IsErr(calls[i].res)

\* the Elasticsearch datatype names, by variant and by struct
DatatypeOfVariant ==
    [TokenCount |-> "token_count", Completion |-> "completion",
     Keyword |-> "keyword", Text |-> "text"]
DatatypeOfStruct ==
    [ElasticTokenCountFieldMapping |-> "token_count",
     ElasticCompletionFieldMapping |-> "completion",
     KeywordFieldMapping |-> "keyword", TextFieldMapping |-> "text"]

\* C1: the first entry handed to the backend, and the first entry of the
\* document, is `type` with the fixed datatype string of the active variant
\* (of the struct, when its serialize() is called directly); a successful
\* run always has it.
TagFirst ==
    IsStruct =>
        /\ Len(calls) >= 2 =>
              /\ calls[2].op = "serialize_struct_elt"
              /\ calls[2].name = "type"
              /\ calls[2].value = Str(DatatypeOfStruct[self.ty])
              /\ via \in DOMAIN DatatypeOfVariant =>
                    calls[2].value = Str(DatatypeOfVariant[via])
        /\ doc # <<>> =>
              /\ doc[1] = <<"type", Str(DatatypeOfStruct[self.ty])>>
              /\ via \in DOMAIN DatatypeOfVariant =>
                    doc[1] = <<"type", Str(DatatypeOfVariant[via])>>
        /\ Succeeded => doc # <<>>

TagFirstWitness ==
    /\ Succeeded
    /\ via = "Completion"
    /\ IsCompletion
    /\ Len(doc) > 1
    /\ doc[1] = <<"type", Str("completion")>>

\* C2: in a token_count or completion run a parameter that is None is never
\* a key of the document, every entry other than `type` carries the value of
\* the parameter it is named after, and after a successful run every
\* parameter that is Some(v) is a key with value v.
Sparsity ==
    (IsTokenCount \/ IsCompletion) =>
        /\ \A i \in 1..Len(doc) :
              doc[i][1] # "type" =>
                  /\ doc[i][1] \in DOMAIN self.m
                  /\ self.m[doc[i][1]] = Some(doc[i][2])
        /\ \A p \in DOMAIN self.m :
              /\ self.m[p] = None => \A i \in 1..Len(doc) : doc[i][1] # p
              /\ (Succeeded /\ IsSome(self.m[p])) =>
                    \E i \in 1..Len(doc) : doc[i] = <<p, Unwrap(self.m[p])>>

SparsityWitness ==
    /\ Succeeded
    /\ IsTokenCount
    /\ self.m.doc_values = Some(Bool(FALSE))
    /\ self.m.precision_step = Some(U32(0))
    /\ self.m.analyzer = None
    /\ self.m.store = None
    /\ \E i, j \in 1..Len(doc) :
          /\ doc[i] = <<"doc_values", Bool(FALSE)>>
          /\ doc[j] = <<"precision_step", U32(0)>>

\* the canonical key orders of the produced documents
TokenCountOrder ==
    <<"type", "analyzer", "boost", "doc_values", "index", "include_in_all",
      "precision_step", "store">>
CompletionOrder ==
    <<"type", "analyzer", "search_analyzer", "payloads", "preserve_separators",
      "preserve_position_increments", "max_input_length">>

\* ks is a subsequence of order: ks is what is left of order after deleting
\* some of its elements (matched greedily, left to right)
RECURSIVE IsSubsequence(_, _)
IsSubsequence(ks, order) ==
    IF ks = <<>> THEN TRUE
    ELSE IF order = <<>> THEN FALSE
    ELSE IF Head(ks) = Head(order) THEN IsSubsequence(Tail(ks), Tail(order))
    ELSE IsSubsequence(ks, Tail(order))

\* C3: the keys of a token_count document are a subsequence of
\* [type, analyzer, boost, doc_values, index, include_in_all, precision_step,
\* store], those of a completion document a subsequence of [type, analyzer,
\* search_analyzer, payloads, preserve_separators,
\* preserve_position_increments, max_input_length].
CanonicalOrder ==
    /\ IsTokenCount => IsSubsequence(Keys(doc), TokenCountOrder)
    /\ IsCompletion => IsSubsequence(Keys(doc), CompletionOrder)

CanonicalOrderWitness ==
    /\ Succeeded
    /\ IsCompletion
    /\ doc = << <<"type", Str("completion")>>, <<"preserve_separators", Bool(FALSE)>>,
               <<"max_input_length", U32(1)>> >>

\* C4: fields() returns Some(map) with the single key "keyword", mapped to
\* the Keyword variant with ignore_above = Some(256) and every other
\* parameter None; its document is {"type":"keyword","ignore_above":256}.
DefaultSnapshot ==
    IsSome(fieldsRet) =>
        /\ DOMAIN Unwrap(fieldsRet) = {"keyword"}
        /\ Unwrap(fieldsRet).keyword.variant = "Keyword"
        /\ \A p \in DOMAIN Unwrap(fieldsRet).keyword.m :
              Unwrap(fieldsRet).keyword.m[p] =
                  IF p = "ignore_above" THEN Some(U32(256)) ELSE None
        /\ "ignore_above" \in DOMAIN Unwrap(fieldsRet).keyword.m
        /\ pc \notin {"idle", "fields_returned"} =>
              /\ self = [ty |-> "KeywordFieldMapping", m |-> Unwrap(fieldsRet).keyword.m]
              /\ via = "Keyword"
        /\ Succeeded =>
              doc = << <<"type", Str("keyword")>>, <<"ignore_above", U32(256)>> >>

DefaultSnapshotWitness ==
    /\ IsSome(fieldsRet)
    /\ Succeeded
    /\ Len(doc) = 2

\* C5: serializing an IndexOptions value makes exactly one backend call,
\* serialize_str, with "docs", "freqs", "positions" or "offsets" for Docs,
\* Freqs, Positions, Offsets; nothing else is emitted, and distinct values
\* give distinct strings.
EnumFidelity ==
    /\ self.ty = "IndexOptions" =>
          /\ Len(calls) = 1
          /\ calls[1].op = "serialize_str"
          /\ calls[1].value =
                Str([Docs |-> "docs", Freqs |-> "freqs", Positions |-> "positions",
                     Offsets |-> "offsets"][self.m.IndexOptions])
          /\ doc = <<>>
          /\ ret = calls[1].res
    /\ \A i \in 1..Len(calls) : calls[i].op = "serialize_str" => self.ty = "IndexOptions"
    /\ \A a, b \in IndexOptions : IndexOptionsStr(a) = IndexOptionsStr(b) => a = b

EnumFidelityWitness ==
    /\ self.ty = "IndexOptions"
    /\ self.m.IndexOptions = "Positions"
    /\ Succeeded
    /\ calls[1].value = Str("positions")

\* C6: once a backend call of a token_count or completion run has failed
\* with error e, serialize() has returned Err(e); the failed call is the last
\* call made (it is not repeated), and Ok is returned only when no call failed.
ErrorPropagation ==
    (IsTokenCount \/ IsCompletion) =>
        /\ \A i \in 1..Len(calls) :
              Failed(i) => /\ pc = "done"
                           /\ ret = calls[i].res
                           /\ i = Len(calls)
        /\ IsOk(ret) => \A i \in 1..Len(calls) : ~Failed(i)
        /\ IsErr(ret) => calls # <<>> /\ calls[Len(calls)].res = ret

ErrorPropagationWitness ==
    /\ IsCompletion
    /\ pc = "done"
    /\ ret = Err(2)
    /\ Len(calls) = 4
    /\ calls[4].op = "serialize_struct_elt"
    /\ calls[4].res = Err(2)

\* C7: no key occurs twice in a token_count or completion document; after a
\* successful run `type` occurs exactly once.
KeyUniqueness ==
    (IsTokenCount \/ IsCompletion) =>
        /\ \A i, j \in 1..Len(doc) : doc[i][1] = doc[j][1] => i = j
        /\ Succeeded => Cardinality({i \in 1..Len(doc) : doc[i][1] = "type"}) = 1

KeyUniquenessWitness ==
    /\ Succeeded
    /\ IsCompletion
    /\ IsSome(self.m.analyzer)
    /\ IsSome(self.m.search_analyzer)
    /\ Len(doc) = Len(CompletionOrder)

DeclaredLength ==
    ((IsTokenCount \/ IsCompletion) /\ calls # <<>>) =>
        /\ calls[1].value = [len |-> IF IsTokenCount THEN 8 ELSE 7]
        /\ Len(doc) <= calls[1].value.len
        /\ Succeeded =>
              /\ Len(doc) = 1 + NumPresent(self.m)
              /\ (Len(doc) = calls[1].value.len) <=>
                    (\A p \in DOMAIN self.m : IsSome(self.m[p]))

DeclaredLengthWitness ==
    /\ Succeeded
    /\ IsTokenCount
    /\ \A p \in DOMAIN self.m : IsSome(self.m[p])
    /\ Len(doc) = 8

\* C10: in a token_count or completion run serialize_struct is the first
\* call and is made once; a failed call is the last call of the run and
\* ends it; serialize_struct_end is made at most once, as the last call,
\* after `type` and every Some parameter were accepted; a successful run
\* ends with it.
CallProtocol ==
    (IsTokenCount \/ IsCompletion) =>
        /\ pc # "serialize_struct" => calls # <<>>
        /\ \A i \in 1..Len(calls) :
              /\ (calls[i].op = "serialize_struct") <=> (i = 1)
              /\ Failed(i) => (i = Len(calls) /\ pc = "done")
              /\ calls[i].op = "serialize_struct_end" =>
                    /\ i = Len(calls)
                    /\ pc = "done"
                    /\ \A j \in 1..(i - 1) : ~Failed(j)
                    /\ Len(doc) = 1 + NumPresent(self.m)
                    /\ i = Len(doc) + 2
        /\ Succeeded => calls[Len(calls)].op = "serialize_struct_end"

CallProtocolWitness ==
    /\ IsTokenCount
    /\ pc = "done"
    /\ Len(calls) = 3
    /\ Failed(3)
    /\ NumPresent(self.m) >= 3

====
